---- MODULE Spec2Model ----
(***************************************************************************)
(* A model of the Human orchestrator (class Human: load, #checkBackend,    *)
(* detect) and of the nanodet object pipeline (load, process, predict).    *)
(*                                                                         *)
(* JavaScript runs every piece of code between two suspension points       *)
(* (await) to completion, so each action below is one such piece: a call's *)
(* start up to its first await, or the continuation of one await up to the *)
(* next.  Calls into the tf library are modelled by what the library does; *)
(* a call that may reject is a nondeterministic choice between its         *)
(* completion and its failure.                                             *)
(*                                                                         *)
(* Numbers: a normalized coordinate is an integer in halves (1.0 is 2),    *)
(* a score an integer in tenths (0.9 is 9), the iou threshold a fraction   *)
(* [num, den].                                                             *)
(***************************************************************************)
EXTENDS Integers, Sequences, FiniteSets, TLC

\* ------------------------------------------------------------------ bounds
\* Largest number of (cell, class) pairs of one raw output set that carry a
\* score worth looking at (every other cell scores below any threshold).
MaxCand == 4
\* Number of nanodet.predict calls the frame-skip harness makes.
MaxPredictCalls == 5
\* Number of calls (detect or load) each caller of a Human instance makes.
MaxRounds == 2

\* ------------------------------------------------------------- small helpers
Min(a, b) == IF a <= b THEN a ELSE b
Max(a, b) == IF a >= b THEN a ELSE b

Range(s) == {s[i] : i \in 1..Len(s)}

\* The stride sizes process iterates over, in its order.
Strides == <<1, 2, 4>>

\* ---------------------------------------------------- tf.image.nonMaxSuppression
\* Area of the box the library reads from four numbers: it takes them as
\* two corners [y1, x1, y2, x2], in either order.
CornerArea(b) ==
  (Max(b[1], b[3]) - Min(b[1], b[3])) * (Max(b[2], b[4]) - Min(b[2], b[4]))

CornerInter(a, b) ==
  LET ymin == Max(Min(a[1], a[3]), Min(b[1], b[3]))
      xmin == Max(Min(a[2], a[4]), Min(b[2], b[4]))
      ymax == Min(Max(a[1], a[3]), Max(b[1], b[3]))
      xmax == Min(Max(a[2], a[4]), Max(b[2], b[4]))
  IN  Max(ymax - ymin, 0) * Max(xmax - xmin, 0)

\* intersectionOverUnion(boxes, i, j) >= iouThreshold, the library's test
\* for dropping a candidate; an empty box overlaps nothing (iou = 0).
IouAtLeast(a, b, thr) ==
  IF CornerArea(a) <= 0 \/ CornerArea(b) <= 0
  THEN thr.num <= 0
  ELSE CornerInter(a, b) * thr.den
         >= thr.num * (CornerArea(a) + CornerArea(b) - CornerInter(a, b))

\* The library's order of candidates: highest score first, and among equal
\* scores the lower index first.
Before(scores, i, j) ==
  scores[i] > scores[j] \/ (scores[i] = scores[j] /\ i < j)

\* The k-th candidate (1-based) among idxs in the library's order.
RECURSIVE Ordered(_, _)
Ordered(scores, idxs) ==
  IF idxs = {} THEN <<>>
  ELSE LET top == CHOOSE i \in idxs : \A j \in idxs \ {i} : Before(scores, i, j)
       IN  <<top>> \o Ordered(scores, idxs \ {top})

RECURSIVE Greedy(_, _, _, _, _)
Greedy(boxes, order, selected, maxOut, thr) ==
  IF Len(selected) >= maxOut \/ order = <<>> THEN selected
  ELSE LET c    == Head(order)
           drop == \E k \in 1..Len(selected) : IouAtLeast(boxes[c], boxes[selected[k]], thr)
       IN  Greedy(boxes, Tail(order),
                  IF drop THEN selected ELSE Append(selected, c), maxOut, thr)

\* tf.image.nonMaxSuppressionAsync(boxes, scores, maxOutputSize, iouThreshold,
\* scoreThreshold): the selected indices (here 1-based), in selection order.
nonMaxSuppression(boxes, scores, maxOutputSize, iouThreshold, scoreThreshold) ==
  LET cands == {i \in 1..Len(scores) : scores[i] > scoreThreshold}
  IN  Greedy(boxes, Ordered(scores, cands), <<>>,
             Min(maxOutputSize, Len(boxes)), iouThreshold)

\* ------------------------------------------------------------------ process
\* The index of the background class, which process never reports.
IgnoredClass == 61

\* The (cell, class) pairs of the grids whose score the raw output sets
\* below vary, in the order process visits them (stride 1, then 2, then 4;
\* within a stride by cell i, then class j): position k lies in the grid of
\* stride StrideAt(k) and has class index ClassAt(k).  Every other pair
\* scores below any threshold and is left out.
StrideAt(k) == IF k <= 2 THEN Strides[1] ELSE IF k = 3 THEN Strides[2] ELSE Strides[3]
ClassAt(k) == IF k = 2 THEN IgnoredClass ELSE 0

\* What a raw output holds for one such pair: its score, and the box
\* [x, y, w, h] that the argmax offsets of its cell give.
Boxes == { <<0, 0, 2, 2>>, <<1, 0, 1, 2>>, <<0, 0, 1, 1>> }
Scores == {6, 8, 9}
Cells == [score : Scores, boxRaw : Boxes]
\* The background pair is never reported, whatever it holds: one value.
CellsAt(k) ==
  IF ClassAt(k) = IgnoredClass THEN {[score |-> 9, boxRaw |-> <<0, 0, 2, 2>>]} ELSE Cells

\* A raw output set: the strides that have a score tensor (scoresT) and a
\* feature tensor (featuresT) of the matching shape, and the cells.
AllStrides == Range(Strides)
WellFormed(n) ==
  { [scoresT |-> AllStrides, featuresT |-> AllStrides, cells |-> cs] :
      cs \in {s \in UNION {[1..m -> Cells] : m \in 0..n} :
                 \A k \in 1..Len(s) : s[k] \in CellsAt(k)} }
Malformed ==
  { [scoresT |-> AllStrides \ m.s, featuresT |-> AllStrides \ m.f, cells |-> cs] :
      m \in {[s |-> {x}, f |-> {}] : x \in AllStrides}
            \cup {[s |-> {}, f |-> {x}] : x \in AllStrides},
      cs \in [1..1 -> {[score |-> 9, boxRaw |-> <<0, 0, 2, 2>>]}] }
RawOutputs(n) == WellFormed(n) \cup Malformed

\* Lines 35-72: the candidates of one stride, appended to results; id counts
\* the candidates pushed so far.
RECURSIVE PushStride(_, _, _, _, _)
PushStride(cells, k, strideSize, cfg, results) ==
  IF k > Len(cells) THEN results
  ELSE LET keep == /\ StrideAt(k) = strideSize
                   /\ cells[k].score > cfg.object.minConfidence
                   /\ ClassAt(k) # IgnoredClass
           result == [id |-> Len(results), strideSize |-> strideSize,
                      score |-> cells[k].score, class |-> ClassAt(k) + 1,
                      boxRaw |-> cells[k].boxRaw]
       IN  PushStride(cells, k + 1, strideSize, cfg,
                      IF keep THEN Append(results, result) ELSE results)

\* A stride whose feature tensor is missing throws at featuresT.reshape, one
\* whose score tensor is missing at scoresT.arraySync.
StrideThrows(res, strideSize) ==
  strideSize \notin res.featuresT \/ strideSize \notin res.scoresT

\* Lines 25-74: the loop over the strides; threw when a stride throws (the
\* candidates pushed before it are lost with the call).
RECURSIVE DecodeStrides(_, _, _, _)
DecodeStrides(res, k, cfg, results) ==
  IF k > Len(Strides) THEN [threw |-> FALSE, results |-> results]
  ELSE IF StrideThrows(res, Strides[k]) THEN [threw |-> TRUE, results |-> <<>>]
  ELSE DecodeStrides(res, k + 1, cfg, PushStride(res.cells, 1, Strides[k], cfg, results))

\* Lines 90-92, the sort: by descending score, candidates of equal score in
\* the order they had (Array.prototype.sort is stable).
RECURSIVE InsertByScore(_, _)
InsertByScore(sorted, r) ==
  IF sorted = <<>> THEN <<r>>
  ELSE IF Head(sorted).score >= r.score
       THEN <<Head(sorted)>> \o InsertByScore(Tail(sorted), r)
       ELSE <<r>> \o sorted

\* A sort that was left out: the candidates stay in the filter's order.
SortByScore_left_out(rs) == rs

RECURSIVE SortByScore(_)
SortByScore(rs) ==
  IF rs = <<>> THEN <<>>
  ELSE InsertByScore(SortByScore(SubSeq(rs, 1, Len(rs) - 1)), rs[Len(rs)])

\* A filter that takes the library's indices to count from one.
RECURSIVE FilterByIdx_from_one(_, _, _)
FilterByIdx_from_one(results, k, nmsIdx) ==
  IF k > Len(results) THEN <<>>
  ELSE (IF (k + 1) \in Range(nmsIdx) THEN <<results[k]>> ELSE <<>>)
         \o FilterByIdx_from_one(results, k + 1, nmsIdx)

\* Lines 90-91, the filter: the candidates whose index nms selected.
RECURSIVE FilterByIdx(_, _, _)
FilterByIdx(results, k, nmsIdx) ==
  IF k > Len(results) THEN <<>>
  ELSE (IF k \in Range(nmsIdx) THEN <<results[k]>> ELSE <<>>)
         \o FilterByIdx(results, k + 1, nmsIdx)

\* Line 84: the call of the library's nms on the candidates' boxRaw and score.
NmsOf(results, cfg) ==
  nonMaxSuppression([k \in 1..Len(results) |-> results[k].boxRaw],
                    [k \in 1..Len(results) |-> results[k].score],
                    cfg.object.maxResults, cfg.object.iouThreshold,
                    cfg.object.minConfidence)

\* ------------------------------------------------------------ configuration
\* The options of Config that the modelled code reads.  config.profile is
\* left out: with it the same calls are made through tf.profile.
Pipes == {"face", "body", "hand", "object"}

DefaultConfig ==
  [ backend |-> "webgl", async |-> FALSE, videoOptimized |-> TRUE, scoped |-> FALSE,
    face   |-> [enabled |-> TRUE],
    body   |-> [enabled |-> TRUE, modelPath |-> "blazepose"],
    hand   |-> [enabled |-> TRUE],
    gesture |-> [enabled |-> TRUE],
    object |-> [enabled |-> TRUE, minConfidence |-> 5, iouThreshold |-> [num |-> 2, den |-> 5],
                maxResults |-> 2, skipFrames |-> 1, modelPath |-> "nanodet"] ]

\* mergeDeep(config, userConfig): userConfig holds some of the keys of
\* config, and under a key that holds an object some of its keys.
NestedKeys == {"face", "body", "hand", "gesture", "object"}
mergeDeep(cfg, userConfig) ==
  [k \in DOMAIN cfg |->
     IF k \notin DOMAIN userConfig THEN cfg[k]
     ELSE IF k \notin NestedKeys THEN userConfig[k]
     ELSE [f \in DOMAIN cfg[k] |->
             IF f \in DOMAIN userConfig[k] THEN userConfig[k][f] ELSE cfg[k][f]]]

\* userConfig = {}
EmptyConfig == [k \in {} |-> TRUE]

\* The path X.load hands to tf.loadGraphModel: config.object.modelPath in
\* nanodet, config.body.modelPath in blazepose; the paths of the face and
\* hand models are not varied.
modelPath(m, cfg) ==
  CASE m = "nanodet" -> cfg.object.modelPath
    [] m = "blazepose" -> cfg.body.modelPath
    [] OTHER -> m

\* ------------------------------------------------------------------- values
\* A JavaScript value a pipeline hands back: null, undefined, or an array.
Null == [tag |-> "null", arr |-> <<>>]
Undefined == [tag |-> "undefined", arr |-> <<>>]
Arr(a) == [tag |-> "array", arr |-> a]

\* What detect is given: nothing (null), something image.process cannot
\* convert, or an image; an image is told apart by the raw output the
\* object model computes for it.
NullInput == [kind |-> "null", raw |-> [scoresT |-> {}, featuresT |-> {}, cells |-> <<>>]]
BadInput  == [kind |-> "bad", raw |-> [scoresT |-> {}, featuresT |-> {}, cells |-> <<>>]]
Image(r)  == [kind |-> "image", raw |-> r]

\* Number.MAX_SAFE_INTEGER, the initial value of skipped: here the largest
\* integer of the checker, above every skipFrames.
MaxSafeInteger == 2147483647

Callers == {"A", "B"}

\* ---------------------------------------------------------------- the state
VARIABLES
  model,      \* [module -> BOOLEAN]: the module-level `let model` of a pipeline module is set
  last,       \* nanodet: the detections of the last real decode
  skipped,    \* nanodet: frames served from last since the last real decode
  config,     \* Human.config
  state,      \* Human.state
  models,     \* Human.models: [module -> BOOLEAN], a handle is held
  firstRun,   \* Human.#firstRun
  backend,    \* tf.getBackend(): the active backend
  scopes,     \* open engine scopes (startScope without its endScope)
  call,       \* [caller -> the call it has in flight, with its bookkeeping]
  rounds,     \* [caller -> calls it has made]
  loadStarts, \* [module -> calls of tf.loadGraphModel made for it]
  executes,   \* calls of the object model's executeAsync made
  hlog,       \* the frame-skip harness: one entry per nanodet.predict call that returned
  overlapped, \* two calls on the instance have been in flight at once
  loadedWith, \* the configuration under which a Human.load last ran to its end, if any
  modelFrom,  \* [module -> the path its model was loaded from, "" for no model]
  perf        \* Human.perf: [key -> the time recorded under it, Absent for none]

vars == <<model, last, skipped, config, state, models, firstRun, backend, scopes,
          call, rounds, loadStarts, executes, hlog, overlapped, loadedWith,
                 modelFrom,
          modelFrom, perf>>

Modules == {"facemesh", "blazepose", "handpose", "nanodet"}

\* The keys of Human.perf that are modelled, and Human.perf after the
\* constructor (line 165).
PerfKeys == {"load", "face", "body", "hand", "object", "gesture", "total"}
Absent == -1
NoPerf == [k \in PerfKeys |-> Absent]

\* A caller with no call in flight.
NoCall ==
  [ kind |-> "none", pc |-> "idle", input |-> NullInput, outcome |-> "none",
    error |-> "", from |-> "none", target |-> "", loading |-> {}, cur |-> 0,
    plan |-> [m \in Modules |-> "null"],
    pst  |-> [p \in Pipes |-> "none"],
    pres |-> [p \in Pipes |-> Undefined],
    how  |-> "none", cfg |-> DefaultConfig, results |-> <<>>, out |-> <<>>,
    live |-> {}, invoked |-> {}, nmsCalls |-> 0, loads |-> 0, asked |-> 0,
    cbEntered |-> FALSE, afterLoad |-> FALSE,
    paths |-> [m \in Modules |-> ""],
    measured |-> [p \in Pipes |-> Absent],
    ticks |-> [elapsed |-> {1}, quick |-> {0}],
    prev |-> [returned |-> FALSE, performance |-> NoPerf],
    merged |-> DefaultConfig,
    start |-> [last |-> <<>>, skipped |-> 0, model |-> FALSE] ]

\* ------------------------------------------------------------------ nanodet
\* process(res, inputSize, outputShape, config) up to its first suspension,
\* on the bookkeeping t of the call it runs in.  hasRes is false when res is
\* undefined: res.find then throws in the first stride.  A throw leaves
\* process rejected before line 76 released res.
ProcessBegin(t, hasRes, res, cfg) ==
  LET decoded == DecodeStrides(res, 1, cfg, <<>>)
  IN  IF ~hasRes \/ decoded.threw
      THEN [t EXCEPT !.pst.object = "rejected"]
      ELSE IF Len(decoded.results) > 0
      THEN [t EXCEPT !.live = @ \ {"objectT"}, !.results = decoded.results,
                     !.nmsCalls = @ + 1, !.pst.object = "nms"]
      ELSE [t EXCEPT !.live = @ \ {"objectT"}, !.results = decoded.results,
                     !.out = SortByScore(FilterByIdx(decoded.results, 1, <<>>)),
                     !.pst.object = "ret"]

\* process from the resolution of nonMaxSuppressionAsync to its return.
ProcessNms(t) ==
  LET nmsIdx == NmsOf(t.results, t.cfg)
  IN  [t EXCEPT !.live = (@ \cup {"nms"}) \ {"nms"},
                !.out = SortByScore(FilterByIdx(t.results, 1, nmsIdx)),
                !.pst.object = "ret"]

\* The test of line 100 with <= for <: one frame too many is skipped.
UseLast_one_more(sk, lst, cfg) ==
  sk <= cfg.object.skipFrames /\ cfg.videoOptimized /\ Len(lst) > 0

\* Line 100: the cached detections are returned instead of a decode.
UseLast(sk, lst, cfg) ==
  sk < cfg.object.skipFrames /\ cfg.videoOptimized /\ Len(lst) > 0

\* The reset that forgets the sentinel.
skippedReset_zero(cfg) == 0

\* Lines 104-105: if (config.videoOptimized) skipped = 0; else skipped =
\* Number.MAX_SAFE_INTEGER.
skippedReset(cfg) == IF cfg.videoOptimized THEN 0 ELSE MaxSafeInteger

\* The cache hit without its count.
skipNext_stays(sk) == sk

\* Line 101: skipped++.
skipNext(sk) == sk + 1

\* The test of line 98 left out.
modelMissing_never(loaded) == FALSE

\* Line 98: if (!model) return null.
modelMissing(loaded) == ~loaded

\* predict(image, config) up to its first suspension.  w holds what it may
\* change: last, skipped, the count of executeAsync calls, and t.
PredictBegin(w, loaded, image, cfg) ==
  IF modelMissing(loaded)
  THEN [w EXCEPT !.t.how = "null", !.t.pst.object = "done", !.t.pres.object = Null]
  ELSE IF UseLast(w.skipped, w.last, cfg)
  THEN [w EXCEPT !.skipped = skipNext(@), !.t.how = "cached",
                 !.t.pst.object = "done", !.t.pres.object = Arr(w.last)]
  ELSE LET sk == skippedReset(cfg)
           \* resize, norm, transpose allocated; norm and resize disposed
           alloc == (w.t.live \cup {"resize", "norm", "transpose"}) \ {"norm", "resize"}
           t1 == [w.t EXCEPT !.how = "real", !.cfg = cfg, !.live = alloc]
       IN  IF cfg.object.enabled
           THEN [w EXCEPT !.skipped = sk, !.executes = @ + 1,
                          !.t = [t1 EXCEPT !.pst.object = "exec",
                                           !.invoked = @ \cup {"object"}]]
           ELSE \* objectT stays undefined: process throws, the executor dies
                [w EXCEPT !.skipped = sk,
                          !.t = [ProcessBegin([t1 EXCEPT !.live = @ \ {"transpose"}],
                                              FALSE, image.raw, cfg)
                                   EXCEPT !.pst.object = "dead"]]

\* Everything a piece of code run for caller c may change, and what its
\* measurements of time give: elapsed for one that spans an await, quick for
\* one that does not.
World(c) ==
  [ model |-> model, last |-> last, skipped |-> skipped, config |-> config,
    state |-> state, models |-> models, firstRun |-> firstRun, backend |-> backend,
    scopes |-> scopes, loadStarts |-> loadStarts, executes |-> executes,
    loadedWith |-> loadedWith, modelFrom |-> modelFrom, perf |-> perf, elapsed |-> 1, quick |-> 0,
    t |-> call[c] ]

Apply(c, w) ==
  /\ model' = w.model
  /\ last' = w.last
  /\ skipped' = w.skipped
  /\ config' = w.config
  /\ state' = w.state
  /\ models' = w.models
  /\ firstRun' = w.firstRun
  /\ backend' = w.backend
  /\ scopes' = w.scopes
  /\ loadStarts' = w.loadStarts
  /\ executes' = w.executes
  /\ loadedWith' = w.loadedWith
  /\ modelFrom' = w.modelFrom
  /\ perf' = w.perf
  /\ call' = [call EXCEPT ![c] = w.t]

\* model.executeAsync resolves: transpose is disposed and process decodes.
ExecResolve(c) ==
  /\ call[c].pst.object = "exec"
  /\ LET t1 == [call[c] EXCEPT !.live = (@ \cup {"objectT"}) \ {"transpose"}]
         t2 == ProcessBegin(t1, TRUE, t1.input.raw, t1.cfg)
     IN  call' = [call EXCEPT ![c] =
                    IF t2.pst.object = "rejected"
                    THEN [t2 EXCEPT !.pst.object = "dead"] ELSE t2]
  /\ UNCHANGED <<model, last, skipped, config, state, models, firstRun, backend,
                 scopes, rounds, loadStarts, executes, hlog, overlapped, loadedWith,
                 modelFrom,
                 perf>>

\* model.executeAsync rejects: the executor of predict throws, and the
\* promise predict returned is never settled.
ExecReject(c) ==
  /\ call[c].pst.object = "exec"
  /\ call' = [call EXCEPT ![c].pst.object = "dead"]
  /\ UNCHANGED <<model, last, skipped, config, state, models, firstRun, backend,
                 scopes, rounds, loadStarts, executes, hlog, overlapped, loadedWith,
                 modelFrom,
                 perf>>

\* nonMaxSuppressionAsync resolves: process filters, sorts and returns.
NmsResolve(c) ==
  /\ call[c].pst.object = "nms"
  /\ call' = [call EXCEPT ![c] = ProcessNms(@)]
  /\ UNCHANGED <<model, last, skipped, config, state, models, firstRun, backend,
                 scopes, rounds, loadStarts, executes, hlog, overlapped, loadedWith,
                 modelFrom,
                 perf>>

\* The executor of predict resumes after `await process(...)`: lines 125-126.
PredictReturn(c) ==
  /\ call[c].pst.object = "ret"
  /\ call[c].kind # "process"
  /\ last' = call[c].out
  /\ call' = [call EXCEPT ![c].pst.object = "done", ![c].pres.object = Arr(call[c].out)]
  /\ UNCHANGED <<model, skipped, config, state, models, firstRun, backend,
                 scopes, rounds, loadStarts, executes, hlog, overlapped, loadedWith,
                 modelFrom,
                 perf>>

\* ------------------------------------------------- process on its own
\* One call of process on a raw output set and a configuration.
ProcessConfigs ==
  { [DefaultConfig EXCEPT !.object.minConfidence = mc, !.object.maxResults = mr] :
      mc \in {5, 7}, mr \in {0, 1, 2} }

InitHuman ==
  /\ config = DefaultConfig
  /\ state = "idle"
  /\ models = [m \in Modules |-> FALSE]
  /\ firstRun = TRUE
  /\ backend = "webgl"
  /\ scopes = 0
  /\ rounds = [c \in Callers |-> 0]
  /\ loadStarts = [m \in Modules |-> 0]
  /\ executes = 0
  /\ hlog = <<>>
  /\ overlapped = FALSE
  /\ loadedWith = [valid |-> FALSE, config |-> DefaultConfig]
  /\ perf = NoPerf

\* The paths of models that were loaded under the default configuration.
LoadedFrom(held) ==
  [m \in Modules |-> IF held[m] THEN modelPath(m, DefaultConfig) ELSE ""]

InitProcess ==
  /\ InitHuman
  /\ model = [m \in Modules |-> m = "nanodet"]
  /\ modelFrom = LoadedFrom(model)
  /\ last = <<>>
  /\ skipped = MaxSafeInteger
  /\ \E res \in RawOutputs(MaxCand), cfg \in ProcessConfigs :
       call = [c \in Callers |->
                 IF c = "A"
                 THEN [NoCall EXCEPT !.kind = "process", !.input = Image(res), !.cfg = cfg]
                 ELSE NoCall]

HProcessCall(c) ==
  /\ call[c].kind = "process"
  /\ call[c].pc = "idle"
  /\ call' = [call EXCEPT ![c] =
                ProcessBegin([@ EXCEPT !.pc = "wait", !.live = {"objectT"}],
                             TRUE, @.input.raw, @.cfg)]
  /\ UNCHANGED <<model, last, skipped, config, state, models, firstRun, backend,
                 scopes, rounds, loadStarts, executes, hlog, overlapped, loadedWith,
                 modelFrom,
                 perf>>

HProcessSettled(c) ==
  /\ call[c].kind = "process"
  /\ call[c].pc = "wait"
  /\ call[c].pst.object \in {"ret", "rejected"}
  /\ call' = [call EXCEPT ![c].pc = "done",
                          ![c].outcome = IF call[c].pst.object = "ret"
                                         THEN "result" ELSE "rejected",
                          ![c].pres.object = Arr(call[c].out)]
  /\ UNCHANGED <<model, last, skipped, config, state, models, firstRun, backend,
                 scopes, rounds, loadStarts, executes, hlog, overlapped, loadedWith,
                 modelFrom,
                 perf>>

NextProcess ==
  \E c \in Callers : HProcessCall(c) \/ NmsResolve(c) \/ HProcessSettled(c)

SpecProcess == InitProcess /\ [][NextProcess]_vars

\* Two frames, told apart by the raw output the object model computes for
\* them: one without a candidate, one with one.
FrameNone == [scoresT |-> AllStrides, featuresT |-> AllStrides, cells |-> <<>>]
FrameOne ==
  [scoresT |-> AllStrides, featuresT |-> AllStrides,
   cells |-> <<[score |-> 9, boxRaw |-> <<0, 0, 2, 2>>]>>]
PredictFrames == {FrameNone, FrameOne}

\* ------------------------------------------------- the box of one cell
\* Lines 39-51 on one cell whose score passed the test of line 38: i is the
\* cell, boxIdx[1..4] the argmax indices of its four features, strideSize
\* the stride and inputSize the model's input size.  Coordinates are
\* fractions num / den over one denominator.
ScaleBoxTimes2 == 5
GridBase == 13
MaxOffset == 7
InputSizes == {320, 416}

baseSize(strideSize) == strideSize * GridBase

\* The denominator: 2 * baseSize * strideSize^2 * inputSize.
BoxDen(strideSize, inputSize) ==
  2 * baseSize(strideSize) * strideSize * strideSize * inputSize

\* cx and cy of lines 39-40, over BoxDen.
CenterNum(i, strideSize, inputSize) ==
  LET B == baseSize(strideSize)
  IN  << (2 * (i % B) + 1) * strideSize * strideSize * inputSize,
         (2 * (i \div B) + 1) * strideSize * strideSize * inputSize >>

\* scaleBox / strideSize * boxOffset[k] of lines 41-49, over BoxDen, with
\* boxOffset[k] = boxIdx[k] * (baseSize / strideSize / inputSize).
OffsetNum(a, strideSize) ==
  ScaleBoxTimes2 * a * baseSize(strideSize) * baseSize(strideSize)

\* [x, y, w, h] of lines 42-50, before line 51.
BoxUnclamped(i, boxIdx, strideSize, inputSize) ==
  LET c == CenterNum(i, strideSize, inputSize)
      x == c[1] - OffsetNum(boxIdx[1], strideSize)
      y == c[2] - OffsetNum(boxIdx[2], strideSize)
      w == c[1] + OffsetNum(boxIdx[3], strideSize) - x
      h == c[2] + OffsetNum(boxIdx[4], strideSize) - y
  IN  <<x, y, w, h>>

\* Line 51 without its bounds.
Clamp_left_out(n, den) == n

\* Line 51: Math.max(0, Math.min(a, 1)).
Clamp(n, den) == Max(0, Min(n, den))

boxRawOf(i, boxIdx, strideSize, inputSize) ==
  LET den == BoxDen(strideSize, inputSize)
      b == BoxUnclamped(i, boxIdx, strideSize, inputSize)
  IN  [den |-> den, num |-> [k \in 1..4 |-> Clamp(b[k], den)]]

\* The cells tried in a grid: its first, the last of its first row, its last.
CellsTried(strideSize) ==
  LET B == baseSize(strideSize) IN {0, B - 1, B * B - 1}

DecodeInputs ==
  { [strideSize |-> s, i |-> i, boxIdx |-> a, inputSize |-> n] :
      s \in Range(Strides), i \in UNION {CellsTried(t) : t \in Range(Strides)},
      a \in [1..4 -> 0..MaxOffset], n \in InputSizes }

InitDecode ==
  /\ InitHuman
  /\ model = [m \in Modules |-> m = "nanodet"]
  /\ modelFrom = LoadedFrom(model)
  /\ last = <<>>
  /\ skipped = MaxSafeInteger
  /\ \E d \in {x \in DecodeInputs : x.i \in CellsTried(x.strideSize)} :
       call = [c \in Callers |->
                 IF c = "A"
                 THEN [NoCall EXCEPT !.kind = "decode", !.input = [kind |-> "cell", raw |-> d]]
                 ELSE NoCall]

\* The candidate of the cell is pushed.
HDecodeCell(c) ==
  /\ call[c].kind = "decode"
  /\ call[c].pc = "idle"
  /\ LET d == call[c].input.raw
     IN  call' = [call EXCEPT
                    ![c].pc = "done",
                    ![c].results = <<[id |-> 0, strideSize |-> d.strideSize,
                                      boxRaw |-> boxRawOf(d.i, d.boxIdx, d.strideSize,
                                                          d.inputSize)]>>]
  /\ UNCHANGED <<model, last, skipped, config, state, models, firstRun, backend,
                 scopes, rounds, loadStarts, executes, hlog, overlapped, loadedWith,
                 modelFrom,
                 perf>>

NextDecode == \E c \in Callers : HDecodeCell(c)

SpecDecode == InitDecode /\ [][NextDecode]_vars

\* -------------------------------------------------------------------- Human
\* The code of Human between two suspensions is one step.  The steps of one
\* call are written as operators on World(c), so that a step that runs from
\* one method into the next is their composition.

\* #checkSanity, set in the constructor and nowhere else.
checkSanity == FALSE

\* #sanity(input): the error it reports, "" for none.
sanity(input) ==
  IF ~checkSanity THEN ""
  ELSE IF input.kind = "null" THEN "input is not defined"
  ELSE ""

\* The pipeline a module serves, and the order in which load and detect
\* go through them.
PipeOf(m) ==
  CASE m = "facemesh" -> "face" [] m = "blazepose" -> "body"
    [] m = "handpose" -> "hand" [] OTHER -> "object"
ModuleOrder == <<"facemesh", "handpose", "blazepose", "nanodet">>
\* The order with the object pipeline moved to the front.
PipeOrder_object_first == <<"object", "face", "body", "hand">>
\* Lines 418-475: face, body, hand, object.
PipeOrder == <<"face", "body", "hand", "object">>
Wanted(m, cfg) == cfg[PipeOf(m)].enabled

\* The caller of a call that cannot go on: an async method rejects, the
\* executor of detect's promise throws and leaves the promise pending.
Thrown(t) ==
  IF t.kind = "load"
  THEN [t EXCEPT !.pc = "done", !.outcome = "rejected"]
  ELSE [t EXCEPT !.pc = "dead"]

\* resolve(value) of detect's promise: only the first call settles it.
Resolve(t, how, err) ==
  IF t.outcome = "pending" THEN [t EXCEPT !.outcome = how, !.error = err] ELSE t

\* #checkBackend(force) up to its first suspension, called from `from`, in
\* a browser (IS_BROWSER): 'tensorflow' is written over with 'webgl'.
\* The awaits of the wasm branch change nothing and are folded into the
\* await of setBackend.
checkBackendBegin(w, force, from) ==
  IF (w.config.backend # "" /\ force) \/ (w.backend # w.config.backend)
  THEN LET cfg == IF w.config.backend = "tensorflow"
                  THEN [w.config EXCEPT !.backend = "webgl"] ELSE w.config
       IN  [w EXCEPT !.state = "backend", !.config = cfg,
                     !.t.cbEntered = TRUE, !.t.from = from,
                     !.t.target = cfg.backend,
                     !.t.pc = IF cfg.backend # "" THEN "cb_set" ELSE "cb_ready"]
  ELSE [w EXCEPT !.t.from = from, !.t.pc = "cb_ret"]

\* The end of load: lines 303-310.
loadEnd(w) ==
  [w EXCEPT !.firstRun = FALSE,
            !.perf.load = IF w.elapsed > Max(@, 0) THEN w.elapsed ELSE @,
            !.loadedWith = [valid |-> TRUE, config |-> w.config],
            !.t = IF w.t.kind = "load"
                  THEN [w.t EXCEPT !.pc = "done", !.outcome = "result"]
                  ELSE [w.t EXCEPT !.pc = "after_load"]]

\* X.load(config) of a pipeline module, called for module m: a module whose
\* model is not set starts tf.loadGraphModel with the configured path.
moduleLoad(w, m) ==
  IF w.model[m] THEN [w EXCEPT !.t.asked = @ + 1]
  ELSE [w EXCEPT !.loadStarts[m] = @ + 1, !.t.loads = @ + 1, !.t.asked = @ + 1,
                 !.t.loading = @ \cup {m}, !.t.paths[m] = modelPath(m, w.config)]

\* The test of load without the handle: a held handle is asked for again.
needsLoad_whatever_held(w, m) == Wanted(m, w.config)

\* The test load makes before it calls X.load: the capability is enabled
\* and Human holds no handle for it.
needsLoad(w, m) == Wanted(m, w.config) /\ ~w.models[m]

\* load with config.async: lines 262-287 up to the await of Promise.all.
RECURSIVE loadAllFrom(_, _)
loadAllFrom(w, k) ==
  IF k > Len(ModuleOrder) THEN [w EXCEPT !.t.pc = "load_all"]
  ELSE LET m == ModuleOrder[k]
       IN  IF needsLoad(w, m)
           THEN loadAllFrom(moduleLoad([w EXCEPT !.t.plan[m] = "load"], m), k + 1)
           ELSE IF w.models[m] THEN loadAllFrom([w EXCEPT !.t.plan[m] = "held"], k + 1)
           ELSE loadAllFrom([w EXCEPT !.t.plan[m] = "null"], k + 1)

\* load without config.async: lines 289-299 from the k-th module on, up to
\* the next await or the end of load.
RECURSIVE loadSeqFrom(_, _)
loadSeqFrom(w, k) ==
  IF k > Len(ModuleOrder) THEN loadEnd(w)
  ELSE LET m == ModuleOrder[k]
       IN  IF needsLoad(w, m)
           THEN moduleLoad([w EXCEPT !.t.pc = "load_seq", !.t.cur = k], m)
           ELSE loadSeqFrom(w, k + 1)

\* load from line 261 on.
loadModels(w) ==
  IF w.config.async THEN loadAllFrom(w, 1) ELSE loadSeqFrom(w, 1)

\* load(userConfig) up to its first suspension; w.elapsed is what the
\* measurement of line 310 gives when load ends before any suspension.
loadBegin(w, userConfig) ==
  LET w1 == [w EXCEPT !.state = "load", !.config = mergeDeep(w.config, userConfig)]
  IN  IF w1.firstRun THEN checkBackendBegin(w1, TRUE, "load") ELSE loadModels(w1)

\* What the face, body and hand pipelines answer for an image.
FaceOut == Arr(<<"face">>)
BodyOut == Arr(<<"keypoints">>)
HandOut == Arr(<<"hand">>)
StateOf(p) ==
  CASE p = "face" -> "run:face" [] p = "body" -> "run:body"
    [] p = "hand" -> "run:hand" [] OTHER -> "run:object"

\* faceall.detectFace(this, tensor), called.
faceBegin(w) ==
  [w EXCEPT !.t.pst.face = "run", !.t.invoked = @ \cup {"face"}]

\* blazepose.predict(image, config) up to its await: lines 18-27.  resize is
\* disposed before the await, normalize after it.
blazeposePredictBegin(w) ==
  IF ~w.model["blazepose"] \/ ~w.config.body.enabled
  THEN [w EXCEPT !.t.pst.body = "done", !.t.pres.body = Null]
  ELSE [w EXCEPT !.t.pst.body = "run", !.t.invoked = @ \cup {"body"},
                 !.t.live = (@ \cup {"bp_resize", "bp_normalize"}) \ {"bp_resize"}]

\* this.models.handpose?.estimateHands(tensor, config), called.
handBegin(w) ==
  IF w.models["handpose"]
  THEN [w EXCEPT !.t.pst.hand = "run", !.t.invoked = @ \cup {"hand"}]
  ELSE [w EXCEPT !.t.pst.hand = "done", !.t.pres.hand = Undefined]

\* The object branch that never calls nanodet.predict.
objectBegin_left_out(w) ==
  IF w.config.async
  THEN [w EXCEPT !.t.pst.object = "done", !.t.pres.object = Arr(<<>>)]
  ELSE PredictBegin(w, w.model["nanodet"], w.t.input, w.config)

\* nanodet.predict(process.tensor, this.config), called.
objectBegin(w) ==
  PredictBegin(w, w.model["nanodet"], w.t.input, w.config)

pipeBegin(w, p) ==
  CASE p = "face" -> faceBegin(w)
    [] p = "body" -> blazeposePredictBegin(w)
    [] p = "hand" -> handBegin(w)
    [] OTHER -> objectBegin(w)

\* Lines 485-494: the gesture timing and the total.
perfEnd(w) ==
  LET g == IF ~w.config.gesture.enabled THEN w.perf.gesture
           ELSE IF ~w.config.async THEN w.quick
           ELSE IF w.perf.gesture > 0 THEN Absent ELSE w.perf.gesture
  IN  [w.perf EXCEPT !.gesture = g, !.total = w.elapsed]

\* The end of detect with the input tensor kept.
detectEnd_keeps_tensor(w) ==
  [w EXCEPT !.scopes = IF w.config.scoped THEN @ - 1 ELSE @,
            !.state = "idle",
            !.perf = perfEnd(w),
            !.t = [Resolve(w.t, "result", "") EXCEPT !.pc = "done"]]

\* The end of detect: lines 480-506.  A pipeline that was started and not
\* awaited is in the result as the promise it returned.  The result holds
\* Human.perf itself as its performance.
detectEnd(w) ==
  [w EXCEPT !.scopes = IF w.config.scoped THEN @ - 1 ELSE @,
            !.state = "idle",
            !.perf = perfEnd(w),
            !.t = [Resolve(w.t, "result", "") EXCEPT
                     !.pc = "done", !.live = @ \ {"tensor"}]]

\* detect from the k-th pipeline on (lines 418-479), up to the next await or
\* the end of detect.
RECURSIVE detectFrom(_, _)
detectFrom(w, k) ==
  IF k > Len(PipeOrder)
  THEN IF w.config.async THEN [w EXCEPT !.t.pc = "join"] ELSE detectEnd(w)
  ELSE LET p == PipeOrder[k]
           on == w.config[p].enabled
           off == [w EXCEPT !.t.pst[p] = "done", !.t.pres[p] = Arr(<<>>)]
       IN  IF w.config.async
           THEN detectFrom([(IF on THEN pipeBegin(w, p) ELSE off)
                              EXCEPT !.perf[p] = IF @ > 0 THEN Absent ELSE @], k + 1)
           ELSE LET w1 == [w EXCEPT !.state = StateOf(p)]
                    w0 == [off EXCEPT !.state = StateOf(p), !.t.measured[p] = w.quick,
                                      !.perf[p] = IF w.quick > 0 THEN w.quick ELSE @]
                IN  IF on
                    THEN [pipeBegin(w1, p) EXCEPT !.t.pc = "await", !.t.cur = k]
                    ELSE detectFrom(w0, k + 1)

\* Lines 426-427 (and the same of the other pipelines): the time the awaited
\* pipeline took is recorded when it is above 0.  t.measured keeps what the
\* call measured (current).
stageTimed(w) ==
  [w EXCEPT !.perf[PipeOrder[w.t.cur]] = IF w.elapsed > 0 THEN w.elapsed ELSE @,
            !.t.measured[PipeOrder[w.t.cur]] = w.elapsed]

\* detect from line 398 to the first pipeline, for an input image.process
\* converts.
detectImage(w) ==
  detectFrom([w EXCEPT !.scopes = IF w.config.scoped THEN @ + 1 ELSE @,
                       !.t.live = @ \cup {"tensor"}], 1)

\* detect from line 398 on for an input image.process returns no tensor
\* for: the error is resolved and detect returns.
detectNoTensor(w) ==
  [w EXCEPT !.scopes = IF w.config.scoped THEN @ + 1 ELSE @,
            !.t = [Resolve(w.t, "error", "could not convert input to tensor")
                     EXCEPT !.pc = "done"]]

\* detect from line 398 on for an input image.process throws on.
detectImageThrows(w) ==
  [w EXCEPT !.scopes = IF w.config.scoped THEN @ + 1 ELSE @, !.t = Thrown(w.t)]

\* detect(input, userConfig) up to its first suspension: lines 373-392.
detectBegin(w, userConfig) ==
  LET w1 == [w EXCEPT !.state = "check", !.config = mergeDeep(w.config, userConfig),
                      !.t.merged = mergeDeep(w.config, userConfig)]
      error == sanity(w.t.input)
      w2 == IF error # "" THEN [w1 EXCEPT !.t = Resolve(w1.t, "error", error)] ELSE w1
  IN  checkBackendBegin(w2, FALSE, "detect")

\* ------------------------------------------------------ the steps of a call
InFlight(c) == call[c].kind \in {"detect", "load"} /\ call[c].pc \notin {"idle", "done"}

\* Caller A makes its calls one after another, each once the one before has
\* settled.  Caller B makes one call, of load, while the first call of A is
\* in flight.  MaxRounds bounds the calls made on the instance.
MayCall(c) ==
  /\ call[c].kind \in {"none", "detect", "load"}
  /\ call[c].pc \in {"idle", "done"}
  /\ rounds["A"] + rounds["B"] < MaxRounds
  /\ c = "B" => rounds[c] = 0 /\ rounds["A"] = 1 /\ InFlight("A")

Called(c) ==
  /\ rounds' = [rounds EXCEPT ![c] = @ + 1]
  /\ overlapped' = (overlapped \/ \E d \in Callers \ {c} : InFlight(d))
  /\ UNCHANGED hlog

Inputs == {NullInput, Image(FrameNone), Image(FrameOne)}
DetectConfigs == {EmptyConfig}
LoadConfigs == {EmptyConfig, [object |-> [enabled |-> TRUE, modelPath |-> "nanodet-2"]]}

DetectCall(c) ==
  /\ MayCall(c)
  /\ c = "A"
  /\ \E input \in Inputs, userConfig \in DetectConfigs :
       LET t == [NoCall EXCEPT !.kind = "detect", !.input = input, !.outcome = "pending",
                               !.start = [last |-> last, skipped |-> skipped,
                                          model |-> model["nanodet"]]]
       IN  Apply(c, detectBegin([World(c) EXCEPT !.t = t], userConfig))
  /\ Called(c)

LoadCall(c) ==
  /\ MayCall(c)
  /\ \E userConfig \in (IF c = "A" THEN LoadConfigs ELSE {EmptyConfig}) :
       LET t == [NoCall EXCEPT !.kind = "load", !.outcome = "pending",
                               !.afterLoad = /\ loadedWith.valid
                                             /\ loadedWith.config = mergeDeep(config, userConfig)]
       IN  \E q \in t.ticks.quick :
             Apply(c, loadBegin([World(c) EXCEPT !.t = t, !.elapsed = q], userConfig))
  /\ Called(c)

Step(c, w) == Apply(c, w) /\ UNCHANGED <<rounds, hlog, overlapped>>

\* tf.setBackend resolves: the requested backend is the active one.
SetBackendResolve(c) ==
  /\ call[c].pc = "cb_set"
  /\ Step(c, [World(c) EXCEPT !.backend = call[c].target, !.t.pc = "cb_ready"])

\* tf.setBackend rejects: the catch of line 346 logs it and goes on.
SetBackendReject(c) ==
  /\ call[c].pc = "cb_set"
  /\ Step(c, [World(c) EXCEPT !.t.pc = "cb_ready"])

\* #checkBackend returns (after tf.ready, or at once when its test failed)
\* and its caller goes on: detect calls load, load goes to the models.
CheckBackendReturn(c) ==
  /\ call[c].pc \in {"cb_ready", "cb_ret"}
  /\ \E e \in call[c].ticks.elapsed, q \in call[c].ticks.quick :
       Step(c, IF call[c].from = "detect"
               THEN loadBegin([World(c) EXCEPT !.elapsed = q], EmptyConfig)
               ELSE loadModels([World(c) EXCEPT !.elapsed = e]))

\* tf.loadGraphModel resolves in X.load: the module's model is set.
LoadResolve(c, m) ==
  /\ m \in call[c].loading
  /\ Step(c, [World(c) EXCEPT !.model[m] = TRUE, !.modelFrom[m] = call[c].paths[m],
                             !.t.loading = @ \ {m}])

\* tf.loadGraphModel rejects: X.load rejects, and with it load.
LoadReject(c, m) ==
  /\ m \in call[c].loading
  /\ Step(c, [World(c) EXCEPT
                !.t = IF call[c].pc \in {"load_all", "load_seq"}
                      THEN [Thrown(call[c]) EXCEPT !.loading = @ \ {m}]
                      ELSE [call[c] EXCEPT !.loading = @ \ {m}]])

\* Promise.all of line 275 resolves: the handles are assigned.
LoadAllDone(c) ==
  /\ call[c].pc = "load_all"
  /\ call[c].loading = {}
  /\ \E e \in call[c].ticks.elapsed :
       Step(c, loadEnd([World(c) EXCEPT
                          !.elapsed = e,
                          !.models = [m \in Modules |-> call[c].plan[m] # "null"]]))

\* The await of one X.load of lines 289-299 resolves: the handle is
\* assigned and load goes to the next module.
LoadSeqContinue(c) ==
  /\ call[c].pc = "load_seq"
  /\ call[c].loading = {}
  /\ \E e \in call[c].ticks.elapsed :
       Step(c, loadSeqFrom([World(c) EXCEPT !.elapsed = e,
                                           !.models[ModuleOrder[call[c].cur]] = TRUE],
                           call[c].cur + 1))

\* `await this.load()` resolves in detect.
DetectImage(c) ==
  /\ call[c].pc = "after_load"
  /\ call[c].input.kind = "image"
  /\ \E e \in call[c].ticks.elapsed, q \in call[c].ticks.quick :
       Step(c, detectImage([World(c) EXCEPT !.elapsed = e, !.quick = q]))

DetectNoTensor(c) ==
  /\ call[c].pc = "after_load"
  /\ call[c].input.kind # "image"
  /\ Step(c, detectNoTensor(World(c)))

DetectImageThrows(c) ==
  /\ call[c].pc = "after_load"
  /\ call[c].input.kind # "image"
  /\ Step(c, detectImageThrows(World(c)))

\* A face, body or hand pipeline resolves.  blazepose.predict disposes
\* normalize after its await (line 39).
PipeResolve(c, p) ==
  /\ p \in {"face", "body", "hand"}
  /\ call[c].pst[p] = "run"
  /\ Step(c, [World(c) EXCEPT
                !.t.pst[p] = "done",
                !.t.pres[p] = CASE p = "face" -> FaceOut [] p = "body" -> BodyOut
                                [] OTHER -> HandOut,
                !.t.live = @ \ (IF p = "body" THEN {"bp_normalize"} ELSE {})])

\* A face, body or hand pipeline rejects.
PipeReject(c, p) ==
  /\ p \in {"face", "body", "hand"}
  /\ call[c].pst[p] = "run"
  /\ Step(c, [World(c) EXCEPT !.t.pst[p] = "failed"])

\* The pipeline detect awaits has resolved: detect goes to the next one.
AwaitDone(c) ==
  /\ call[c].pc = "await"
  /\ call[c].pst[PipeOrder[call[c].cur]] = "done"
  /\ \E e \in call[c].ticks.elapsed, q \in call[c].ticks.quick :
       Step(c, detectFrom(stageTimed([World(c) EXCEPT !.elapsed = e, !.quick = q]),
                          call[c].cur + 1))

\* The pipeline detect awaits has rejected: the executor throws.
AwaitFail(c) ==
  /\ call[c].pc = "await"
  /\ call[c].pst[PipeOrder[call[c].cur]] = "failed"
  /\ Step(c, [World(c) EXCEPT !.t = Thrown(call[c])])

\* A join that goes on with the first pipeline that has resolved.
joinReady_any(t) == \E p \in Pipes : t.pst[p] = "done"

\* Line 478: Promise.all resolves once each of the four has resolved.
joinReady(t) == \A p \in Pipes : t.pst[p] = "done"

\* Promise.all of line 478 resolves.
Join(c) ==
  /\ call[c].pc = "join"
  /\ joinReady(call[c])
  /\ \E e \in call[c].ticks.elapsed :
       Step(c, detectEnd([World(c) EXCEPT !.elapsed = e]))

\* Promise.all of line 478 rejects with the first pipeline that does.
JoinFail(c) ==
  /\ call[c].pc = "join"
  /\ \E p \in Pipes : call[c].pst[p] = "failed"
  /\ Step(c, [World(c) EXCEPT !.t = Thrown(call[c])])

\* The configurations an instance is made with: both modes, each with the
\* active backend, with another one and with one #checkBackend renames; with
\* and without scopes; with three, two and one of the pipelines on.
Setups ==
  { [backend |-> "webgl", scoped |-> FALSE, on |-> {"face", "body", "object"}],
    [backend |-> "wasm",  scoped |-> TRUE,  on |-> {"hand", "object"}],
    [backend |-> "tensorflow", scoped |-> TRUE,  on |-> {"face"}] }
HumanConfigs ==
  { [DefaultConfig EXCEPT !.async = a, !.backend = s.backend, !.scoped = s.scoped,
                          !.face.enabled = "face" \in s.on, !.body.enabled = "body" \in s.on,
                          !.hand.enabled = "hand" \in s.on,
                          !.object.enabled = "object" \in s.on] :
      a \in BOOLEAN, s \in Setups }

\* A new instance: lines 155-197 and the initial values of the modules.
Init ==
  /\ config \in HumanConfigs
  /\ state = "idle"
  /\ models = [m \in Modules |-> FALSE]
  /\ model = [m \in Modules |-> FALSE]
  /\ last = <<>>
  /\ skipped = MaxSafeInteger
  /\ firstRun = TRUE
  /\ backend = "webgl"
  /\ scopes = 0
  /\ call = [c \in Callers |-> NoCall]
  /\ rounds = [c \in Callers |-> 0]
  /\ loadStarts = [m \in Modules |-> 0]
  /\ executes = 0
  /\ hlog = <<>>
  /\ overlapped = FALSE
  /\ loadedWith = [valid |-> FALSE, config |-> DefaultConfig]
  /\ modelFrom = [m \in Modules |-> ""]
  /\ perf = NoPerf

Next ==
  \E c \in Callers :
    \/ DetectCall(c)
    \/ LoadCall(c)
    \/ SetBackendResolve(c)
    \/ SetBackendReject(c)
    \/ CheckBackendReturn(c)
    \/ \E m \in Modules : LoadResolve(c, m)
    \/ \E m \in Modules : LoadReject(c, m)
    \/ LoadAllDone(c)
    \/ LoadSeqContinue(c)
    \/ DetectImage(c)
    \/ DetectNoTensor(c)
    \/ DetectImageThrows(c)
    \/ \E p \in Pipes : PipeResolve(c, p)
    \/ \E p \in Pipes : PipeReject(c, p)
    \/ AwaitDone(c)
    \/ AwaitFail(c)
    \/ Join(c)
    \/ JoinFail(c)
    \/ ExecResolve(c)
    \/ ExecReject(c)
    \/ NmsResolve(c)
    \/ PredictReturn(c)

Spec == Init /\ [][Next]_vars

\* ------------------------------------------------------- detect, timed
\* One caller calls detect on an image, call after call, and may switch
\* async or switch gesture off with a call; no collaborator fails; a
\* measurement of time gives 0 or 1.
TimedConfigs ==
  { EmptyConfig, [async |-> TRUE], [async |-> FALSE], [gesture |-> [enabled |-> FALSE]] }

TimedDetectCall(c) ==
  /\ MayCall(c)
  /\ c = "A"
  /\ \E userConfig \in TimedConfigs :
       LET t == [NoCall EXCEPT
                   !.kind = "detect", !.input = Image(FrameOne), !.outcome = "pending",
                   !.ticks = [elapsed |-> {0, 1}, quick |-> {0, 1}],
                   !.prev = IF call[c].pc = "done" /\ call[c].outcome = "result"
                            THEN [returned |-> TRUE, performance |-> perf]
                            ELSE call[c].prev,
                   !.start = [last |-> last, skipped |-> skipped,
                              model |-> model["nanodet"]]]
       IN  Apply(c, detectBegin([World(c) EXCEPT !.t = t], userConfig))
  /\ Called(c)

InitTiming ==
  /\ \E a \in BOOLEAN :
       config = [DefaultConfig EXCEPT !.async = a, !.body.enabled = FALSE,
                                      !.hand.enabled = FALSE]
  /\ state = "idle"
  /\ models = [m \in Modules |-> FALSE]
  /\ model = [m \in Modules |-> FALSE]
  /\ last = <<>>
  /\ skipped = MaxSafeInteger
  /\ firstRun = TRUE
  /\ backend = "webgl"
  /\ scopes = 0
  /\ call = [c \in Callers |-> NoCall]
  /\ rounds = [c \in Callers |-> 0]
  /\ loadStarts = [m \in Modules |-> 0]
  /\ executes = 0
  /\ hlog = <<>>
  /\ overlapped = FALSE
  /\ loadedWith = [valid |-> FALSE, config |-> DefaultConfig]
  /\ modelFrom = [m \in Modules |-> ""]
  /\ perf = NoPerf

NextTiming ==
  \E c \in Callers :
    \/ TimedDetectCall(c)
    \/ SetBackendResolve(c)
    \/ CheckBackendReturn(c)
    \/ \E m \in Modules : LoadResolve(c, m)
    \/ LoadAllDone(c)
    \/ LoadSeqContinue(c)
    \/ DetectImage(c)
    \/ \E p \in Pipes : PipeResolve(c, p)
    \/ AwaitDone(c)
    \/ Join(c)
    \/ ExecResolve(c)
    \/ NmsResolve(c)
    \/ PredictReturn(c)

SpecTiming == InitTiming /\ [][NextTiming]_vars

\* ------------------------------------------------- predict on its own
\* A caller that calls nanodet.predict frame after frame, each call after
\* the one before has returned.  object.skipFrames and object.enabled are
\* fixed for the run, videoOptimized and the frame are chosen per call.
\* Between two of its calls blazepose.predict may be called, once.
PredictConfigs ==
  { [DefaultConfig EXCEPT !.object.skipFrames = sf, !.object.enabled = en] :
      sf \in {0, 1, 2}, en \in BOOLEAN }

InitPredict ==
  /\ InitHuman
  /\ \E loaded, bodyLoaded \in BOOLEAN :
       model = [m \in Modules |-> \/ m = "nanodet" /\ loaded
                                  \/ m = "blazepose" /\ bodyLoaded]
  /\ modelFrom = LoadedFrom(model)
  /\ last = <<>>
  /\ skipped = MaxSafeInteger
  /\ \E cfg \in PredictConfigs :
       call = [c \in Callers |->
                 IF c = "A" THEN [NoCall EXCEPT !.kind = "predict", !.cfg = cfg]
                 ELSE [NoCall EXCEPT !.kind = "bodypredict"]]

HPredictCall(c) ==
  /\ call[c].kind = "predict"
  /\ call[c].pc = "idle"
  /\ \A d \in Callers \ {c} : call[d].pc # "wait"
  /\ Len(hlog) < MaxPredictCalls
  /\ \E vo \in BOOLEAN, raw \in PredictFrames :
       LET cfg == [call[c].cfg EXCEPT !.videoOptimized = vo]
           t   == [call[c] EXCEPT !.pc = "wait", !.input = Image(raw), !.cfg = cfg,
                                  !.start = [last |-> last, skipped |-> skipped,
                                             model |-> model["nanodet"]]]
           w   == PredictBegin([World(c) EXCEPT !.t = t], model["nanodet"], Image(raw), cfg)
       IN  Apply(c, w)
  /\ UNCHANGED <<rounds, hlog, overlapped>>

HPredictReturn(c) ==
  /\ call[c].kind = "predict"
  /\ call[c].pc = "wait"
  /\ call[c].pst.object = "done"
  /\ hlog' = Append(hlog, [how |-> call[c].how,
                           videoOptimized |-> call[c].cfg.videoOptimized,
                           res |-> call[c].pres.object,
                           live |-> call[c].live])
  /\ call' = [call EXCEPT ![c] =
                [NoCall EXCEPT !.kind = "predict", !.cfg = call[c].cfg]]
  /\ UNCHANGED <<model, last, skipped, config, state, models, firstRun, backend,
                 scopes, rounds, loadStarts, executes, overlapped, loadedWith,
                 modelFrom,
                 perf>>

HBodyCall(c) ==
  /\ call[c].kind = "bodypredict"
  /\ call[c].pc = "idle"
  /\ \A d \in Callers \ {c} : call[d].pc = "idle"
  /\ Apply(c, blazeposePredictBegin([World(c) EXCEPT !.t.pc = "wait",
                                                     !.t.input = Image(FrameNone)]))
  /\ UNCHANGED <<rounds, hlog, overlapped>>

HBodyReturn(c) ==
  /\ call[c].kind = "bodypredict"
  /\ call[c].pc = "wait"
  /\ call[c].pst.body \in {"done", "failed"}
  /\ call' = [call EXCEPT ![c].pc = "done",
                          ![c].outcome = IF call[c].pst.body = "done"
                                         THEN "result" ELSE "rejected"]
  /\ UNCHANGED <<model, last, skipped, config, state, models, firstRun, backend,
                 scopes, rounds, loadStarts, executes, hlog, overlapped, loadedWith,
                 modelFrom,
                 perf>>

NextPredict ==
  \E c \in Callers :
    \/ HPredictCall(c)
    \/ ExecResolve(c)
    \/ ExecReject(c)
    \/ NmsResolve(c)
    \/ PredictReturn(c)
    \/ HPredictReturn(c)
    \/ HBodyCall(c)
    \/ PipeResolve(c, "body")
    \/ PipeReject(c, "body")
    \/ HBodyReturn(c)

SpecPredict == InitPredict /\ [][NextPredict]_vars

\* =================================================================== claims
\* The overlap of two detections as boxes [x, y, w, h]: the rectangle from
\* (x, y) to (x + w, y + h).
BoxArea(b) == b[3] * b[4]
BoxInter(a, b) ==
  Max(Min(a[1] + a[3], b[1] + b[3]) - Max(a[1], b[1]), 0)
    * Max(Min(a[2] + a[4], b[2] + b[4]) - Max(a[2], b[2]), 0)
OverlapAtLeast(a, b, thr) ==
  IF BoxArea(a) <= 0 \/ BoxArea(b) <= 0
  THEN thr.num <= 0
  ELSE BoxInter(a, b) * thr.den >= thr.num * (BoxArea(a) + BoxArea(b) - BoxInter(a, b))

Descending(out) == \A k \in 1..(Len(out) - 1) : out[k].score >= out[k + 1].score

\* C8: whatever the candidates, what process returns holds at most
\* object.maxResults detections and is sorted by descending score.
C8_AtMostMaxResultsSorted ==
  \A c \in Callers :
    call[c].pst.object = "ret" =>
      /\ Len(call[c].out) <= call[c].cfg.object.maxResults
      /\ Descending(call[c].out)

\* C8's case: three candidates none of which suppresses another, cut to
\* maxResults = 2, and returned in another order than they were pushed.
C8_Witness ==
  \E c \in Callers :
    /\ call[c].pst.object = "ret"
    /\ Len(call[c].results) = 3
    /\ Len(NmsOf(call[c].results, [call[c].cfg EXCEPT !.object.maxResults = 3])) = 3
    /\ call[c].cfg.object.maxResults = 2
    /\ Len(call[c].out) = 2
    /\ call[c].out[1].id > call[c].out[2].id
    /\ call[c].out[1].score > call[c].out[2].score

\* C9: any two distinct detections that process returns overlap with an IoU
\* strictly below object.iouThreshold.
C9_PairwiseIouBelowThreshold ==
  \A c \in Callers :
    call[c].pst.object = "ret" =>
      \A a, b \in 1..Len(call[c].out) :
        a # b => ~OverlapAtLeast(call[c].out[a].boxRaw, call[c].out[b].boxRaw,
                                 call[c].cfg.object.iouThreshold)

\* C10 as stated: no candidate, nothing returned and no call of nms; one
\* candidate, exactly that candidate returned.
C10_EdgeCasesAsStated ==
  \A c \in Callers :
    call[c].pst.object = "ret" =>
      /\ Len(call[c].results) = 0 => (call[c].out = <<>> /\ call[c].nmsCalls = 0)
      /\ Len(call[c].results) = 1 => call[c].out = call[c].results

\* C10, amended: no candidate, nothing returned and no call of nms; one
\* candidate and object.maxResults >= 1, exactly that candidate returned,
\* every field as it was pushed.
C10_EdgeCases ==
  \A c \in Callers :
    call[c].pst.object = "ret" =>
      /\ Len(call[c].results) = 0 => (call[c].out = <<>> /\ call[c].nmsCalls = 0)
      /\ (Len(call[c].results) = 1 /\ call[c].cfg.object.maxResults >= 1)
           => call[c].out = call[c].results

\* C10's case: process has returned the one candidate it was given.
C10_Witness ==
  \E c \in Callers :
    /\ call[c].pst.object = "ret"
    /\ Len(call[c].results) = 1
    /\ call[c].nmsCalls = 1
    /\ call[c].out = call[c].results

AllVideo == \A i \in 1..Len(hlog) : hlog[i].videoOptimized
Hows == [i \in 1..Len(hlog) |-> hlog[i].how]
SkipFramesOfRun == call["A"].cfg.object.skipFrames
\* The run C1 is about: the model is loaded, object.enabled is on, and every
\* call so far was made with videoOptimized on.
VideoRun ==
  /\ call["A"].kind = "predict"
  /\ model["nanodet"]
  /\ call["A"].cfg.object.enabled
  /\ AllVideo

\* C1 as stated: with skipFrames = 2 the first four calls are a real decode,
\* two cached returns and a real decode, with two model invocations; in
\* general a real decode is followed by skipFrames cached returns and then
\* by a real decode.
C1_SkipPatternAsStated ==
  VideoRun =>
    /\ (SkipFramesOfRun = 2 /\ Len(hlog) = 4 /\ call["A"].pc = "idle")
         => (Hows = <<"real", "cached", "cached", "real">> /\ executes = 2)
    /\ \A i \in 1..Len(hlog) :
         hlog[i].how = "real" =>
           /\ \A j \in 1..SkipFramesOfRun :
                i + j <= Len(hlog) => hlog[i + j].how = "cached"
           /\ i + SkipFramesOfRun + 1 <= Len(hlog)
                => hlog[i + SkipFramesOfRun + 1].how = "real"

\* C1, amended: the same, for real decodes that returned at least one
\* detection; a real decode that returned none is followed by a real decode.
NonEmptyReal(i) == hlog[i].how = "real" /\ Len(hlog[i].res.arr) > 0
EmptyReal(i) == hlog[i].how = "real" /\ Len(hlog[i].res.arr) = 0
C1_SkipPattern ==
  VideoRun =>
    /\ (SkipFramesOfRun = 2 /\ Len(hlog) = 4 /\ call["A"].pc = "idle"
          /\ NonEmptyReal(1))
         => (Hows = <<"real", "cached", "cached", "real">> /\ executes = 2)
    /\ Len(hlog) >= 1 => hlog[1].how = "real"
    /\ \A i \in 1..Len(hlog) :
         /\ NonEmptyReal(i) =>
              /\ \A j \in 1..SkipFramesOfRun :
                   i + j <= Len(hlog) => hlog[i + j].how = "cached"
              /\ i + SkipFramesOfRun + 1 <= Len(hlog)
                   => hlog[i + SkipFramesOfRun + 1].how = "real"
         /\ (EmptyReal(i) /\ i + 1 <= Len(hlog)) => hlog[i + 1].how = "real"

\* C1's case: four calls with skipFrames = 2 have returned, as a real
\* decode, two cached returns and a real decode.
C1_Witness ==
  /\ VideoRun
  /\ SkipFramesOfRun = 2
  /\ call["A"].pc = "idle"
  /\ Hows = <<"real", "cached", "cached", "real">>
  /\ executes = 2


\* ------------------------------------------------------------ Human.detect
\* A detect call that can no longer settle: its executor has thrown, or the
\* promise of nanodet.predict it waits for is never settled.
NeverSettles(c) ==
  call[c].kind = "detect" /\ (call[c].pc = "dead" \/ call[c].pst.object = "dead")

\* C2 as stated: a detect call with input = null ends resolved with the error
\* descriptor of the input check, 'input is not defined', and has called no
\* pipeline.
C2_NullInputReported ==
  \A c \in Callers :
    (call[c].kind = "detect" /\ call[c].input.kind = "null" /\ call[c].pc \in {"done", "dead"})
      => /\ call[c].outcome = "error"
         /\ call[c].error = "input is not defined"
         /\ call[c].invoked = {}

\* C3 as stated: no detect call gets to where its promise can no longer be
\* settled with a value.
C3_DetectSettles == \A c \in Callers : ~NeverSettles(c)

\* C4: a detect call that has finished, with a result or with an error
\* descriptor, has released every buffer it allocated.
C4_BuffersReleased ==
  \A c \in Callers :
    (call[c].kind = "detect" /\ call[c].pc = "done") => call[c].live = {}

\* A detect call finished with a result after a real decode with candidates
\* and a body inference.
C4_Witness ==
  \E c \in Callers :
    /\ call[c].kind = "detect" /\ call[c].pc = "done" /\ call[c].outcome = "result"
    /\ call[c].how = "real" /\ call[c].nmsCalls = 1 /\ "body" \in call[c].invoked
    /\ call[c].live = {}

\* C5: with the calls made one after another, the first load on a new
\* instance starts tf.loadGraphModel once for each enabled capability and
\* for no other, and a load called after a load has run to its end under the
\* same configuration asks no module for its model, starts no
\* tf.loadGraphModel, and ends with the handle of every enabled capability.
C5_IdempotentLoad ==
  \A c \in Callers :
    (call[c].kind = "load" /\ ~overlapped) =>
      /\ (rounds["A"] + rounds["B"] = 1 /\ call[c].pc = "done" /\ call[c].outcome = "result")
           => \A m \in Modules : loadStarts[m] = IF Wanted(m, config) THEN 1 ELSE 0
      /\ call[c].afterLoad =>
           /\ call[c].loads = 0
           /\ call[c].asked = 0
           /\ call[c].pc = "done" =>
                /\ call[c].outcome = "result"
                /\ \A m \in Modules : Wanted(m, config) => models[m] /\ model[m]

\* The second of two loads in concurrent mode has ended, the object model
\* loaded once.
C5_Witness ==
  \E c \in Callers :
    /\ call[c].kind = "load" /\ call[c].afterLoad /\ ~overlapped
    /\ call[c].pc = "done" /\ config.async
    /\ config.object.enabled /\ loadStarts["nanodet"] = 1

\* C6 as stated: no two calls have tf.loadGraphModel in flight for the same
\* module, and no two calls are inside #checkBackend.
C6_Serialized ==
  /\ \A m \in Modules : Cardinality({c \in Callers : m \in call[c].loading}) <= 1
  /\ Cardinality({c \in Callers : call[c].pc \in {"cb_set", "cb_ready"}}) <= 1

\* What process returns for a raw output set.
Decoded(raw, cfg) ==
  LET d == DecodeStrides(raw, 1, cfg, <<>>).results
  IN  SortByScore(FilterByIdx(d, 1, IF Len(d) > 0 THEN NmsOf(d, cfg) ELSE <<>>))

\* The outputs of detect as a function of the input, the configuration
\* without its async flag, and the frame-skip cache at the start of the call.
Expected(input, cfg, start) ==
  [p \in Pipes |->
     IF ~cfg[p].enabled THEN Arr(<<>>)
     ELSE CASE p = "face" -> FaceOut
            [] p = "body" -> BodyOut
            [] p = "hand" -> HandOut
            [] OTHER -> IF UseLast(start.skipped, start.last, cfg)
                        THEN Arr(start.last)
                        ELSE Arr(Decoded(input.raw, cfg))]

\* C7: the outputs of a detect call that finished with a result are that
\* function, in sequential mode and in concurrent mode.
C7_ModeEquivalence ==
  \A c \in Callers :
    (call[c].kind = "detect" /\ call[c].pc = "done" /\ call[c].outcome = "result")
      => call[c].pres = Expected(call[c].input, config, call[c].start)

\* A detect call in concurrent mode finished with a detection.
C7_Witness ==
  \E c \in Callers :
    /\ call[c].kind = "detect" /\ call[c].pc = "done" /\ call[c].outcome = "result"
    /\ config.async
    /\ Len(call[c].pres.object.arr) = 1

\* ---------------------------------------------------------- suppression
\* Greedy suppression on the candidates' boxes [x, y, w, h]: in descending
\* score order, a candidate is dropped when it overlaps a selected one with
\* an IoU of at least the threshold; it stops at maxOut selected.
RECURSIVE GreedyByOverlap(_, _, _, _, _)
GreedyByOverlap(results, order, selected, maxOut, thr) ==
  IF Len(selected) >= maxOut \/ order = <<>> THEN selected
  ELSE LET c    == Head(order)
           drop == \E k \in 1..Len(selected) :
                     OverlapAtLeast(results[c].boxRaw, results[selected[k]].boxRaw, thr)
       IN  GreedyByOverlap(results, Tail(order),
                           IF drop THEN selected ELSE Append(selected, c), maxOut, thr)

SuppressedByOverlap(results, cfg) ==
  LET scores == [k \in 1..Len(results) |-> results[k].score]
      kept == GreedyByOverlap(results, Ordered(scores, 1..Len(results)), <<>>,
                              cfg.object.maxResults, cfg.object.iouThreshold)
  IN  SortByScore(FilterByIdx(results, 1, kept))

\* C11 as stated: what process returns is the greedy suppression of the
\* candidates of all strides together, by the overlap of their boxes: of
\* three candidates with the two highest overlapping, the first and the
\* third are returned.
C11_GreedyOverAllStrides ==
  \A c \in Callers :
    call[c].pst.object = "ret" =>
      call[c].out = SuppressedByOverlap(call[c].results, call[c].cfg)

\* ------------------------------------------------------------- the box
\* C12: every coordinate of the boxRaw of an emitted candidate is within
\* [0, 1], whatever the cell, the argmax indices and the stride.
C12_BoxWithinUnit ==
  \A c \in Callers :
    (call[c].kind = "decode" /\ call[c].pc = "done") =>
      \A r \in 1..Len(call[c].results) : \A k \in 1..4 :
        /\ call[c].results[r].boxRaw.num[k] >= 0
        /\ call[c].results[r].boxRaw.num[k] <= call[c].results[r].boxRaw.den

\* A candidate was emitted whose x was below 0 and whose w was above 1
\* before line 51.
C12_Witness ==
  \E c \in Callers :
    /\ call[c].kind = "decode" /\ call[c].pc = "done"
    /\ LET d == call[c].input.raw
           b == BoxUnclamped(d.i, d.boxIdx, d.strideSize, d.inputSize)
       IN  /\ b[1] < 0
           /\ b[3] > BoxDen(d.strideSize, d.inputSize)
           /\ call[c].results[1].boxRaw.num[1] = 0
           /\ call[c].results[1].boxRaw.num[3] = call[c].results[1].boxRaw.den

\* ------------------------------------------------------- model not loaded
\* C13: while the object model is not loaded every nanodet.predict call
\* returns null, the model is never invoked, no buffer is allocated and
\* skipped and last keep their initial values; blazepose.predict called
\* without its model returns null, invokes nothing and allocates nothing.
C13_NotLoadedReturnsNull ==
  /\ (call["A"].kind = "predict" /\ ~model["nanodet"]) =>
       /\ executes = 0
       /\ last = <<>>
       /\ skipped = MaxSafeInteger
       /\ call["A"].live = {}
       /\ call["A"].pst.object \in {"none", "done"}
       /\ \A i \in 1..Len(hlog) :
            hlog[i].how = "null" /\ hlog[i].res = Null /\ hlog[i].live = {}
  /\ (call["B"].kind = "bodypredict" /\ ~model["blazepose"]) =>
       /\ call["B"].live = {}
       /\ call["B"].invoked = {}
       /\ call["B"].pst.body \in {"none", "done"}
       /\ call["B"].pc = "done" =>
            (call["B"].outcome = "result" /\ call["B"].pres.body = Null)

\* Without either model, nanodet.predict has returned twice and
\* blazepose.predict once.
C13_Witness ==
  /\ call["A"].kind = "predict" /\ ~model["nanodet"] /\ Len(hlog) = 2
  /\ hlog[2].res = Null
  /\ call["B"].kind = "bodypredict" /\ ~model["blazepose"] /\ call["B"].pc = "done"
  /\ call["B"].pres.body = Null

\* -------------------------------------------------------- object disabled
\* C14 as stated: with the model loaded and object.enabled off, a
\* nanodet.predict call invokes no model, settles, and returns an empty
\* result.
C14_DisabledReturnsEmpty ==
  (call["A"].kind = "predict" /\ model["nanodet"] /\ ~call["A"].cfg.object.enabled) =>
    /\ executes = 0
    /\ call["A"].pst.object # "dead"
    /\ \A i \in 1..Len(hlog) : hlog[i].res = Arr(<<>>)

\* ------------------------------------------------------------------ scopes
\* C15 as stated: when a detect call has finished, with a result or with an
\* error descriptor, every engine scope it opened has been closed.
C15_ScopesPaired ==
  \A c \in Callers :
    (call[c].kind = "detect" /\ call[c].pc = "done") => scopes = 0

\* ----------------------------------------------------------------- timings
StageKeys == {"face", "body", "hand", "object", "gesture"}

\* C16 as stated: when a detect call made in concurrent mode has returned its
\* result, Human.perf holds no time for face, body, hand, object or gesture,
\* and holds the total.
C16_AsyncTimingsCleared ==
  \A c \in Callers :
    (call[c].kind = "detect" /\ call[c].pc = "done" /\ call[c].outcome = "result"
       /\ config.async)
      => /\ \A k \in StageKeys : perf[k] = Absent
         /\ perf["total"] # Absent

\* ----------------------------------------------------------- configuration
\* C17 as stated: from its merge on, the configuration a detect call reads is
\* the one it merged.
C17_ConfigReadOnly ==
  \A c \in Callers :
    call[c].kind = "detect" => config = call[c].merged

\* C18 as stated: the performance record of a result that a detect call has
\* returned stays as it was returned, whatever the later calls do.  The
\* result holds Human.perf itself, so its record reads as perf does.
C18_ResultImmutable ==
  \A c \in Callers :
    call[c].prev.returned => perf = call[c].prev.performance

\* C19 as stated: once a load has run to its end under the current
\* configuration, the model each of nanodet and blazepose holds was loaded
\* from the path that configuration names for it.
C19_HandleMatchesPath ==
  (loadedWith.valid /\ loadedWith.config = config) =>
    \A m \in {"nanodet", "blazepose"} :
      model[m] => modelFrom[m] = modelPath(m, config)

\* C20: a nanodet.predict call made with the model loaded and object.enabled
\* on returns the cached detections when videoOptimized is on, the skip
\* counter is below object.skipFrames and the cache is not empty: the counter
\* is then one more than before, the cache is as before, the answer is the
\* cache, which is what the last real decode returned, and the model is not
\* invoked.  When one of the three does not hold, the model is invoked for a
\* real decode.
CacheHit(t) ==
  /\ t.cfg.videoOptimized
  /\ t.start.skipped < t.cfg.object.skipFrames
  /\ Len(t.start.last) > 0
RealCalls == {i \in 1..Len(hlog) : hlog[i].how = "real"}
LastReal == CHOOSE i \in RealCalls : \A j \in RealCalls : j <= i
PredictMade(c) ==
  /\ call[c].kind = "predict"
  /\ call[c].pc = "wait"
  /\ call[c].start.model
  /\ call[c].cfg.object.enabled
C20_CacheHitStep ==
  \A c \in Callers :
    PredictMade(c) =>
      IF CacheHit(call[c])
      THEN /\ call[c].how = "cached"
           /\ call[c].pst.object = "done"
           /\ skipped = call[c].start.skipped + 1
           /\ last = call[c].start.last
           /\ call[c].pres.object = Arr(call[c].start.last)
           /\ RealCalls # {}
           /\ hlog[LastReal].res = call[c].pres.object
           /\ "object" \notin call[c].invoked
      ELSE /\ call[c].how = "real"
           /\ "object" \in call[c].invoked

\* C20's case: a call has returned the cache, and the call after it, made
\* with the counter at 1 and below object.skipFrames, returns it again.
C20_Witness ==
  /\ \E c \in Callers : PredictMade(c) /\ CacheHit(call[c])
                          /\ call[c].start.skipped = 1
  /\ \E i \in 1..Len(hlog) : hlog[i].how = "cached"

\* C21: a nanodet.predict call that runs a real decode has set the skip
\* counter, to 0 when videoOptimized is on and to Number.MAX_SAFE_INTEGER
\* when it is off; the counter is at all times that sentinel or a value
\* from 0 to object.skipFrames, and a call that returns the cache leaves it
\* one higher; the call after a call made with videoOptimized off runs a
\* real decode.
AfterUnoptimized(c) ==
  /\ PredictMade(c)
  /\ Len(hlog) > 0
  /\ ~hlog[Len(hlog)].videoOptimized
C21_CounterReset ==
  /\ \A c \in Callers :
       /\ (PredictMade(c) /\ call[c].how = "real") =>
            skipped = (IF call[c].cfg.videoOptimized THEN 0 ELSE MaxSafeInteger)
       /\ (PredictMade(c) /\ call[c].how = "cached") =>
            (skipped - call[c].start.skipped = 1 /\ skipped <= call[c].cfg.object.skipFrames)
       /\ AfterUnoptimized(c) =>
            (call[c].how = "real" /\ "object" \in call[c].invoked)
  /\ call["A"].kind = "predict" =>
       (skipped = MaxSafeInteger \/ skipped \in 0..SkipFramesOfRun)

\* C21's case: after a call made with videoOptimized off, a call made with
\* videoOptimized on, a cache that is not empty and object.skipFrames above 0
\* runs a real decode and has the counter at 0.
C21_Witness ==
  \E c \in Callers :
    /\ AfterUnoptimized(c)
    /\ call[c].cfg.videoOptimized
    /\ call[c].cfg.object.skipFrames > 0
    /\ Len(call[c].start.last) > 0
    /\ call[c].start.skipped = MaxSafeInteger
    /\ call[c].how = "real"
    /\ skipped = 0

\* C22 as stated: when process has settled, by a return or by an error
\* raised while it decoded a stride, the raw output it was handed is
\* released.
C22_RawOutputReleased ==
  \A c \in Callers :
    (call[c].kind = "process" /\ call[c].pc = "done") =>
      "objectT" \notin call[c].live

\* C23: in a detect call with config.async on, the pipelines that are on
\* have all been started when detect first waits for any of them, and while
\* one of them has not completed the frame tensor is not disposed, the
\* buffer scope is not closed and no result is delivered.
Incomplete(t) == {p \in Pipes : t.pst[p] \notin {"none", "done"}}
C23_ConcurrentJoin ==
  \A c \in Callers :
    (call[c].kind = "detect" /\ config.async) =>
      /\ call[c].pc # "await"
      /\ call[c].pc = "join" => \A p \in Pipes : call[c].pst[p] # "none"
      /\ Incomplete(call[c]) # {} =>
           /\ "tensor" \in call[c].live
           /\ config.scoped => scopes > 0
           /\ call[c].outcome # "result"
           /\ call[c].pc \in {"join", "dead"}

\* C23's case: a concurrent detect call has joined three pipelines it
\* started, the object pipeline with a real decode among them, and has
\* disposed the tensor and delivered its result.
C23_Witness ==
  \E c \in Callers :
    /\ call[c].kind = "detect" /\ config.async
    /\ call[c].pc = "done" /\ call[c].outcome = "result"
    /\ call[c].invoked = {"face", "body", "object"}
    /\ "tensor" \notin call[c].live

\* C24: in a detect call with config.async off the pipelines are started in
\* the order face, body, hand, object, and one is started only when every
\* pipeline before it has completed; the call waits for one pipeline at a
\* time.
SequentialOrder == <<"face", "body", "hand", "object">>
C24_SequentialOrder ==
  \A c \in Callers :
    (call[c].kind = "detect" /\ ~config.async) =>
      /\ call[c].pc # "join"
      /\ \A i, j \in 1..4 :
           (i < j /\ call[c].pst[SequentialOrder[j]] # "none")
             => call[c].pst[SequentialOrder[i]] = "done"
      /\ call[c].pc = "await" =>
           call[c].pst[SequentialOrder[call[c].cur]] # "none"

\* C24's case: a sequential detect call has started face and body, which
\* have completed, and is waiting for the object pipeline's decode.
C24_Witness ==
  \E c \in Callers :
    /\ call[c].kind = "detect" /\ ~config.async
    /\ call[c].pc = "await"
    /\ call[c].invoked = {"face", "body", "object"}
    /\ call[c].pst.face = "done" /\ call[c].pst.body = "done"
    /\ call[c].pst.object = "exec"

\* C25 as stated: in a detect call made with no other call in flight the
\* state goes through config, check, backend (when entered), load and the
\* run states in that order, so that backend is not entered after load, and
\* the state is idle once the call has delivered its outcome.
Alone(c) == ~overlapped /\ \A d \in Callers \ {c} : ~InFlight(d)
C25_StateMachine ==
  \A c \in Callers :
    (call[c].kind = "detect" /\ Alone(c)) =>
      /\ call[c].outcome \in {"result", "error"} => state = "idle"
      /\ state = "backend" => call[c].from # "load"

\* C26 as stated: a detect call, made with no other call in flight, that
\* has entered the backend state and waits for the switch was made with a
\* configured backend other than the active one.
C26_BackendOnlyOnChange ==
  \A c \in Callers :
    (call[c].kind = "detect" /\ Alone(c) /\ call[c].pc = "cb_set") =>
      backend # call[c].merged.backend

\* C27 as stated: when a detect call with config.async off has returned its
\* result, the face, body, hand and object times in Human.perf are what
\* that call measured for them (a time of 0 may also be reported as none).
C27_LatestStageTimings ==
  \A c \in Callers :
    (call[c].kind = "detect" /\ ~config.async
       /\ call[c].pc = "done" /\ call[c].outcome = "result") =>
      \A p \in Pipes :
        \/ perf[p] = call[c].measured[p]
        \/ call[c].measured[p] = 0 /\ perf[p] = Absent

\* C28 as stated: process, handed a raw output set in which a stride has no
\* score tensor or no feature tensor, raises no error: it settles with a
\* list of detections.
MissingTensor(res) == res.scoresT # AllStrides \/ res.featuresT # AllStrides
C28_MissingStrideSkipped ==
  \A c \in Callers :
    (call[c].kind = "process" /\ call[c].pc = "done"
       /\ MissingTensor(call[c].input.raw)) =>
      call[c].outcome = "result"

====
